---- MODULE Spec2Model ----
(***************************************************************************)
(* Model of list_search.py: search(lst, element_or_query) and its helpers  *)
(* _get_element_or_query_by_index, _match_query and _match_path.           *)
(*                                                                         *)
(* Python values are tagged records [tag, val]:                            *)
(*   "none" (val 0), "bool" (val BOOLEAN), "int" (val Int),                *)
(*   "str"  (val = tuple of one-character strings),                        *)
(*   "list" (val = tuple of values),                                       *)
(*   "dict" (val = tuple of [k, v] items in insertion order, k a "str"     *)
(*           payload, i.e. a tuple of characters).                         *)
(* Exceptions are the strings "TypeError" and "RecursionError"; "none" is  *)
(* the absence of an exception.  Floats are not part of the modelled       *)
(* value universe.                                                         *)
(***************************************************************************)
EXTENDS Integers, Sequences, FiniteSets, TLC

\* ------------------------------------------------------------------ bounds
\* longest collection passed to search
MaxLen == 3
\* frames of _match_path the interpreter allows before RecursionError
\* (sys.getrecursionlimit() is 1000; the model uses a small limit that is
\* still larger than any legitimate descent over the modelled data)
RecursionLimit == 6

\* ------------------------------------------------------- value constructors
None == [tag |-> "none", val |-> 0]
PyBool(b) == [tag |-> "bool", val |-> b]
PyInt(n) == [tag |-> "int", val |-> n]
PyStr(s) == [tag |-> "str", val |-> s]
PyList(s) == [tag |-> "list", val |-> s]
PyDict(items) == [tag |-> "dict", val |-> items]
Item(k, v) == [k |-> k, v |-> v]

IsNum(x) == x.tag \in {"int", "bool"}
\* the integer a bool or int stands for (True == 1, False == 0)
NumVal(x) == IF x.tag = "bool" THEN (IF x.val THEN 1 ELSE 0) ELSE x.val

DictHas(d, k) == \E i \in 1..Len(d.val) : d.val[i].k = k
DictGet(d, k) == d.val[CHOOSE i \in 1..Len(d.val) : d.val[i].k = k].v
DictKeys(d) == [i \in 1..Len(d.val) |-> d.val[i].k]

\* --------------------------------------------------------- Python equality
\* a == b : numbers compare by value across bool/int, containers
\* structurally, dicts regardless of item order
RECURSIVE PyEq(_, _)
PyEq(a, b) ==
    IF IsNum(a) /\ IsNum(b) THEN NumVal(a) = NumVal(b)
    ELSE IF a.tag # b.tag THEN FALSE
    ELSE IF a.tag = "none" THEN TRUE
    ELSE IF a.tag = "str" THEN a.val = b.val
    ELSE IF a.tag = "list" THEN
        /\ Len(a.val) = Len(b.val)
        /\ \A i \in 1..Len(a.val) : PyEq(a.val[i], b.val[i])
    ELSE
        /\ Len(a.val) = Len(b.val)
        /\ \A i \in 1..Len(a.val) :
              /\ DictHas(b, a.val[i].k)
              /\ PyEq(a.val[i].v, DictGet(b, a.val[i].k))

\* bool(x)
Truthy(x) ==
    CASE x.tag = "none" -> FALSE
      [] x.tag = "bool" -> x.val
      [] x.tag = "int" -> x.val # 0
      [] OTHER -> Len(x.val) > 0

\* ------------------------------------------------------------ str methods
StartsWith(s, p) == Len(p) <= Len(s) /\ SubSeq(s, 1, Len(p)) = p
EndsWith(s, p) == Len(p) <= Len(s) /\ SubSeq(s, Len(s) - Len(p) + 1, Len(s)) = p
\* sub in s for two strings
IsSubstring(sub, s) ==
    \E i \in 1..(Len(s) - Len(sub) + 1) : SubSeq(s, i, i + Len(sub) - 1) = sub

\* s.split(sep): leftmost non-overlapping occurrences of sep cut the string
RECURSIVE SplitFrom(_, _, _, _)
SplitFrom(s, sep, i, cur) ==
    IF i > Len(s) THEN <<cur>>
    ELSE IF i + Len(sep) - 1 <= Len(s) /\ SubSeq(s, i, i + Len(sep) - 1) = sep
         THEN <<cur>> \o SplitFrom(s, sep, i + Len(sep), <<>>)
         ELSE SplitFrom(s, sep, i + 1, Append(cur, s[i]))
Split(s, sep) == SplitFrom(s, sep, 1, <<>>)

\* characters of the modelled alphabet in code-point order
Alphabet ==
    <<"$", "-", ".", "0", "1", "2", "3", "4", "5", "6", "7", "8", "9",
      "F", "T", "\\", "^", "_", "a", "b", "d", "e", "f", "g", "i", "l",
      "n", "r", "s", "t", "u", "x", "y">>
Ord(c) == CHOOSE i \in 1..Len(Alphabet) : Alphabet[i] = c
IsDigit(c) == c \in {"0", "1", "2", "3", "4", "5", "6", "7", "8", "9"}

\* str(item) for the types the regex stage converts
RECURSIVE Digits(_)
Digits(n) ==
    IF n < 10 THEN <<Alphabet[4 + n]>>
    ELSE Digits(n \div 10) \o <<Alphabet[4 + (n % 10)]>>
ToStr(x) ==
    CASE x.tag = "str" -> x.val
      [] x.tag = "bool" ->
            IF x.val THEN <<"T", "r", "u", "e">> ELSE <<"F", "a", "l", "s", "e">>
      [] x.tag = "int" ->
            IF x.val < 0 THEN <<"-">> \o Digits(0 - x.val) ELSE Digits(x.val)

\* ------------------------------------------------------------- re.match
\* The modelled pattern syntax: literal characters, \d, ".", "^" and "$".
RECURSIVE Tokenise(_, _)
Tokenise(p, i) ==
    IF i > Len(p) THEN <<>>
    ELSE IF p[i] = "\\" /\ i < Len(p)
         THEN <<[kind |-> (IF p[i + 1] = "d" THEN "digit" ELSE "lit"),
                 ch |-> p[i + 1]]>> \o Tokenise(p, i + 2)
    ELSE <<[kind |-> (CASE p[i] = "^" -> "bol"
                        [] p[i] = "$" -> "eol"
                        [] p[i] = "." -> "any"
                        [] OTHER -> "lit"),
            ch |-> p[i]]>> \o Tokenise(p, i + 1)

RECURSIVE MatchFrom(_, _, _, _)
MatchFrom(toks, s, ti, si) ==
    IF ti > Len(toks) THEN TRUE
    ELSE LET t == toks[ti] IN
         CASE t.kind = "bol" -> si = 1 /\ MatchFrom(toks, s, ti + 1, si)
           [] t.kind = "eol" -> si = Len(s) + 1 /\ MatchFrom(toks, s, ti + 1, si)
           [] t.kind = "digit" ->
                si <= Len(s) /\ IsDigit(s[si]) /\ MatchFrom(toks, s, ti + 1, si + 1)
           [] t.kind = "any" -> si <= Len(s) /\ MatchFrom(toks, s, ti + 1, si + 1)
           [] OTHER -> si <= Len(s) /\ s[si] = t.ch /\ MatchFrom(toks, s, ti + 1, si + 1)

\* re.match(pattern, s) is not None: the pattern matches at position 0
ReMatch(pattern, s) == MatchFrom(Tokenise(pattern, 1), s, 1, 1)

\* ------------------------------------------------- comparison and membership
Bool(b) == IF b THEN "T" ELSE "F"
IsError(r) == r \in {"TypeError", "RecursionError"}

RECURSIVE StrCmp3(_, _, _)
StrCmp3(s, t, i) ==
    IF i > Len(s) /\ i > Len(t) THEN "eq"
    ELSE IF i > Len(s) THEN "lt"
    ELSE IF i > Len(t) THEN "gt"
    ELSE IF s[i] = t[i] THEN StrCmp3(s, t, i + 1)
    ELSE IF Ord(s[i]) < Ord(t[i]) THEN "lt" ELSE "gt"

\* three-way order of two values, "TypeError" when they are not
\* order-comparable; a list pair is decided by its first unequal items
RECURSIVE Cmp3(_, _)
RECURSIVE ListCmp3(_, _, _)
ListCmp3(s, t, i) ==
    IF i > Len(s) /\ i > Len(t) THEN "eq"
    ELSE IF i > Len(s) THEN "lt"
    ELSE IF i > Len(t) THEN "gt"
    ELSE IF PyEq(s[i], t[i]) THEN ListCmp3(s, t, i + 1)
    ELSE Cmp3(s[i], t[i])
Cmp3(a, b) ==
    IF IsNum(a) /\ IsNum(b) THEN
        (IF NumVal(a) < NumVal(b) THEN "lt"
         ELSE IF NumVal(a) > NumVal(b) THEN "gt" ELSE "eq")
    ELSE IF a.tag = "str" /\ b.tag = "str" THEN StrCmp3(a.val, b.val, 1)
    ELSE IF a.tag = "list" /\ b.tag = "list" THEN ListCmp3(a.val, b.val, 1)
    ELSE "TypeError"

\* a > b, a >= b, a < b, a <= b; wanted is the set of three-way outcomes
\* the comparison accepts
PyCmp(a, b, wanted) ==
    LET c == Cmp3(a, b) IN
    IF c = "TypeError" THEN "TypeError" ELSE Bool(c \in wanted)

\* the values iterating over x yields (list items, str characters, dict keys)
Iterable(x) == x.tag \in {"list", "str", "dict"}
IterItems(x) ==
    CASE x.tag = "list" -> x.val
      [] x.tag = "str" -> [i \in 1..Len(x.val) |-> PyStr(<<x.val[i]>>)]
      [] x.tag = "dict" -> [i \in 1..Len(x.val) |-> PyStr(x.val[i].k)]

\* x in c
PyIn(x, c) ==
    CASE c.tag = "list" -> Bool(\E i \in 1..Len(c.val) : PyEq(x, c.val[i]))
      [] c.tag = "str" ->
            IF x.tag = "str" THEN Bool(IsSubstring(x.val, c.val)) ELSE "TypeError"
      [] c.tag = "dict" ->
            IF x.tag \in {"list", "dict"} THEN "TypeError"
            ELSE Bool(x.tag = "str" /\ DictHas(c, x.val))
      [] OTHER -> "TypeError"

\* ---------------------------------------------------------------- lookups
SUPPORTED_FILTERING_LOOKUPS ==
    << <<"_", "_", "i", "n">>,
       <<"_", "_", "a", "n", "y">>,
       <<"_", "_", "g", "t">>,
       <<"_", "_", "g", "t", "e">>,
       <<"_", "_", "l", "t">>,
       <<"_", "_", "l", "t", "e">>,
       <<"_", "_", "i", "s", "n", "u", "l", "l">> >>
Dunder == <<"_", "_">>
Dot == <<".">>
\* operator = None; "if operator:" treats None and "" alike
NoOperator == <<>>

\* a plausible slip in the "in" lookup: any() where all() is meant
LookupInAsAny(obj, search_value) ==
    CASE search_value.tag = "str" -> PyIn(search_value, obj)
      [] search_value.tag = "list" ->
            IF ~Iterable(obj) THEN "TypeError"
            ELSE Bool(\E i \in 1..Len(IterItems(obj)) :
                         PyIn(IterItems(obj)[i], search_value) = "T")
      [] OTHER -> Bool(PyEq(obj, search_value))

\* case "in": a str search_value is looked for in the object, a list
\* search_value must hold every item of the object
LookupIn(obj, search_value) ==
    CASE search_value.tag = "str" -> PyIn(search_value, obj)
      [] search_value.tag = "list" ->
            IF ~Iterable(obj) THEN "TypeError"
            ELSE Bool(\A i \in 1..Len(IterItems(obj)) :
                         PyIn(IterItems(obj)[i], search_value) = "T")
      [] OTHER -> Bool(PyEq(obj, search_value))

\* case "any": as "in", but one item of the object in search_value is enough
LookupAny(obj, search_value) ==
    CASE search_value.tag = "str" -> PyIn(search_value, obj)
      [] search_value.tag = "list" ->
            IF ~Iterable(obj) THEN "TypeError"
            ELSE Bool(\E i \in 1..Len(IterItems(obj)) :
                         PyIn(IterItems(obj)[i], search_value) = "T")
      [] OTHER -> Bool(PyEq(obj, search_value))

\* the base case of _match_path (not path): evaluate the pending operator
BaseCase(obj, search_value, operator) ==
    CASE operator = <<"i", "n">> -> LookupIn(obj, search_value)
      [] operator = <<"a", "n", "y">> -> LookupAny(obj, search_value)
      [] operator = <<"g", "t">> -> PyCmp(obj, search_value, {"gt"})
      [] operator = <<"g", "t", "e">> -> PyCmp(obj, search_value, {"gt", "eq"})
      [] operator = <<"l", "t">> -> PyCmp(obj, search_value, {"lt"})
      [] operator = <<"l", "t", "e">> -> PyCmp(obj, search_value, {"lt", "eq"})
      [] operator = <<"i", "s", "n", "u", "l", "l">> ->
            Bool(~PyEq(PyBool(Truthy(obj)), search_value))
      [] OTHER -> Bool(PyEq(obj, search_value))

\* the operator the segment key carries: key.split("__")[-1] if the segment
\* ends with a supported lookup, else None
SegmentOperator(key) ==
    IF \E i \in 1..Len(SUPPORTED_FILTERING_LOOKUPS) :
          EndsWith(key, SUPPORTED_FILTERING_LOOKUPS[i])
    THEN Split(key, Dunder)[Len(Split(key, Dunder))]
    ELSE NoOperator

\* the segment key with the first supported lookup it ends with removed
StripLookup(key) ==
    IF \E i \in 1..Len(SUPPORTED_FILTERING_LOOKUPS) :
          EndsWith(key, SUPPORTED_FILTERING_LOOKUPS[i])
    THEN LET first == CHOOSE i \in 1..Len(SUPPORTED_FILTERING_LOOKUPS) :
                         /\ EndsWith(key, SUPPORTED_FILTERING_LOOKUPS[i])
                         /\ \A j \in 1..(i - 1) :
                               ~EndsWith(key, SUPPORTED_FILTERING_LOOKUPS[j])
         IN SubSeq(key, 1, Len(key) - Len(SUPPORTED_FILTERING_LOOKUPS[first]))
    ELSE key

\* _match_path(object_from_list, path, search_value, operator) running in
\* frame number frame.  res is "T", "F" or the exception raised; depth is
\* the deepest frame the call entered.
RECURSIVE MatchPath(_, _, _, _, _)
MatchPath(obj, path, search_value, operator, frame) ==
    IF frame > RecursionLimit
    THEN [res |-> "RecursionError", depth |-> RecursionLimit]
    ELSE IF path = <<>>
    THEN [res |-> BaseCase(obj, search_value, operator), depth |-> frame]
    ELSE LET rest == Tail(path)
             op == SegmentOperator(path[1])
             key == StripLookup(path[1])
         IN IF obj.tag = "dict" THEN
                IF DictHas(obj, key)
                THEN MatchPath(DictGet(obj, key), rest, search_value, op, frame + 1)
                ELSE [res |-> "F", depth |-> frame]
            ELSE IF obj.tag = "list" THEN
                MatchPath(obj, path, search_value, op, frame + 1)
            ELSE [res |-> "F", depth |-> frame]

Max(a, b) == IF a >= b THEN a ELSE b

\* _match_query(object_from_list, query) over the items of query from
\* position i on: the first condition that does not hold ends the loop
RECURSIVE MatchQueryFrom(_, _, _, _)
MatchQueryFrom(obj, items, i, deepest) ==
    IF i > Len(items) THEN [res |-> "T", depth |-> deepest]
    ELSE LET m == MatchPath(obj, Split(items[i].k, Dot), items[i].v, NoOperator, 1)
             d == Max(deepest, m.depth)
         IN IF m.res = "T" THEN MatchQueryFrom(obj, items, i + 1, d)
            ELSE [res |-> m.res, depth |-> d]
MatchQuery(obj, query) == MatchQueryFrom(obj, query.val, 1, 0)

\* ------------------------------------------------------------------ search
\* A working-set entry is [ref, val]: val is the item, ref the position in
\* the deep copy of lst of the object the entry refers to (0 for the None
\* that _get_element_or_query_by_index returns for a missing position).
Values(m) == [i \in 1..Len(m) |-> m[i].val]
Refs(m) == [i \in 1..Len(m) |-> m[i].ref]

\* matches = deepcopy(lst): a structurally equal, independent copy
Deepcopy(l) == [i \in 1..Len(l) |-> [ref |-> i, val |-> l[i]]]

\* [item for item in matches if item == element_or_query]
ExactMatch(m, q) == SelectSeq(m, LAMBDA it : PyEq(it.val, q))

K_index == <<"_", "_", "i", "n", "d", "e", "x", "_", "_">>
K_regex == <<"_", "_", "r", "e", "g", "e", "x", "_", "_">>

\* a plausible slip: an integer __index__ taken as a 0-based position
ResolveIndexZeroBased(index_val) ==
    IF IsNum(index_val)
    THEN (IF NumVal(index_val) > 0 THEN NumVal(index_val) ELSE 0)
    ELSE (IF PyEq(index_val, PyStr(<<"f", "i", "r", "s", "t">>)) THEN 0 ELSE -1)

\* the position index_val selects: 1-based integers, "first", else last
ResolveIndex(index_val) ==
    IF IsNum(index_val)
    THEN (IF NumVal(index_val) > 0 THEN NumVal(index_val) - 1 ELSE 0)
    ELSE (IF PyEq(index_val, PyStr(<<"f", "i", "r", "s", "t">>)) THEN 0 ELSE -1)

\* lst[index], None on IndexError; a negative index counts from the end
GetElementOrQueryByIndex(m, index) ==
    LET i == IF index < 0 THEN index + Len(m) ELSE index IN
    IF i >= 0 /\ i < Len(m) THEN m[i + 1] ELSE [ref |-> 0, val |-> None]

\* a plausible slip: the selected item is appended to the working set
\* instead of replacing it
IndexStageAppend(m, q) ==
    IF DictHas(q, K_index)
    THEN Append(m, GetElementOrQueryByIndex(m, ResolveIndex(DictGet(q, K_index))))
    ELSE m

\* the "__index__" stage
IndexStage(m, q) ==
    IF DictHas(q, K_index)
    THEN <<GetElementOrQueryByIndex(m, ResolveIndex(DictGet(q, K_index)))>>
    ELSE m

\* isinstance(item, str | int)
IsStrOrInt(x) == x.tag \in {"str", "int", "bool"}

\* match_res: the str/int items whose str() the pattern matches
MatchRes(m, pattern) ==
    SelectSeq(SelectSeq(m, LAMBDA it : IsStrOrInt(it.val)),
              LAMBDA it : ReMatch(pattern, ToStr(it.val)))

\* the "__regex__" stage: [item for item in matches if item in match_res]
RegexStage(m, q) ==
    IF DictHas(q, K_regex)
    THEN LET match_res == MatchRes(m, DictGet(q, K_regex).val) IN
         SelectSeq(m, LAMBDA it :
             \E j \in 1..Len(match_res) : PyEq(it.val, match_res[j].val))
    ELSE m

\* any(key for key in keys if not key.startswith("__")): some non-reserved
\* key is truthy, i.e. not the empty string
HasFieldKeys(q) ==
    \E i \in 1..Len(q.val) : ~StartsWith(q.val[i].k, Dunder) /\ q.val[i].k # <<>>

\* fields_query: the items of the query whose key is not reserved
FieldsQuery(q) == PyDict(SelectSeq(q.val, LAMBDA it : ~StartsWith(it.k, Dunder)))

\* a plausible slip: matching items are collected front to back
RECURSIVE FilterFromPrepend(_, _, _, _, _)
FilterFromPrepend(m, fq, i, out, deepest) ==
    IF i > Len(m) THEN [out |-> out, err |-> "none", depth |-> deepest]
    ELSE LET r == MatchQuery(m[i].val, fq)
             d == Max(deepest, r.depth)
         IN IF IsError(r.res) THEN [out |-> out, err |-> r.res, depth |-> d]
            ELSE FilterFromPrepend(m, fq, i + 1,
                                   IF r.res = "T" THEN <<m[i]>> \o out ELSE out, d)

\* [item for item in matches if _match_query(item, fields_query)] from
\* position i on; the first exception ends the comprehension
RECURSIVE FilterFrom(_, _, _, _, _)
FilterFrom(m, fq, i, out, deepest) ==
    IF i > Len(m) THEN [out |-> out, err |-> "none", depth |-> deepest]
    ELSE LET r == MatchQuery(m[i].val, fq)
             d == Max(deepest, r.depth)
         IN IF IsError(r.res) THEN [out |-> out, err |-> r.res, depth |-> d]
            ELSE FilterFrom(m, fq, i + 1,
                            IF r.res = "T" THEN Append(out, m[i]) ELSE out, d)

\* the field stage
FieldsStage(m, q) ==
    IF HasFieldKeys(q)
    THEN FilterFrom(m, FieldsQuery(q), 1, <<>>, 0)
    ELSE [out |-> m, err |-> "none", depth |-> 0]

\* search(lst, element_or_query) as a function of its arguments
Search(l, q) ==
    IF q.tag # "dict"
    THEN [out |-> ExactMatch(Deepcopy(l), q), err |-> "none", depth |-> 0]
    ELSE FieldsStage(RegexStage(IndexStage(Deepcopy(l), q), q), q)

\* ------------------------------------------------------------------ inputs
K_a == <<"a">>
K_b == <<"b">>
K_empty == <<>>
K_a_b == <<"a", ".", "b">>
K_a_gt == <<"a", "_", "_", "g", "t">>
K_a_lte == <<"a", "_", "_", "l", "t", "e">>
K_a_gt_b == <<"a", "_", "_", "g", "t", ".", "b">>
K_a_in == <<"a", "_", "_", "i", "n">>
K_a_any == <<"a", "_", "_", "a", "n", "y">>
K_a_isnull == <<"a", "_", "_", "i", "s", "n", "u", "l", "l">>
S_x == PyStr(<<"x">>)
S_y == PyStr(<<"y">>)
S_z == PyStr(<<"z">>)
S_12 == PyStr(<<"1", "2">>)
P_1 == PyStr(<<"1">>)
P_T == PyStr(<<"T">>)
P_2digits == PyStr(<<"^", "\\", "d", "\\", "d", "$">>)

\* the elements collections are built from
Elements ==
    << PyInt(1),
       PyBool(TRUE),
       S_12,
       None,
       PyDict(<<Item(K_a, PyInt(1))>>),
       PyDict(<<Item(K_a, PyDict(<<Item(K_b, PyInt(1))>>))>>),
       PyDict(<<Item(K_a, S_x), Item(K_b, PyInt(2))>>),
       PyDict(<<Item(K_a, PyList(<<S_x>>))>>),
       PyDict(<<Item(K_a, PyList(<<S_x, S_y>>)), Item(K_b, PyInt(2))>>),
       PyList(<<PyInt(1)>>),
       PyDict(<<Item(K_a, PyInt(1)), Item(K_b, PyInt(2))>>) >>

\* the queries search is called with
Queries ==
    << PyInt(1),
       S_12,
       PyList(<<PyInt(1)>>),
       PyDict(<<>>),
       PyDict(<<Item(K_index, PyInt(0))>>),
       PyDict(<<Item(K_index, PyInt(1))>>),
       PyDict(<<Item(K_index, PyInt(2))>>),
       PyDict(<<Item(K_index, PyInt(MaxLen + 1))>>),
       PyDict(<<Item(K_index, PyStr(<<"f", "i", "r", "s", "t">>))>>),
       PyDict(<<Item(K_index, PyStr(<<"l", "a", "s", "t">>))>>),
       PyDict(<<Item(K_regex, P_1)>>),
       PyDict(<<Item(K_regex, P_T)>>),
       PyDict(<<Item(K_regex, P_2digits)>>),
       PyDict(<<Item(K_a, PyInt(1))>>),
       PyDict(<<Item(K_b, PyInt(2))>>),
       PyDict(<<Item(K_a, PyInt(1)), Item(K_b, PyInt(2))>>),
       PyDict(<<Item(K_a_b, PyInt(1))>>),
       PyDict(<<Item(K_a_gt, PyInt(0))>>),
       PyDict(<<Item(K_a_lte, PyInt(1))>>),
       PyDict(<<Item(K_a_gt_b, PyInt(1))>>),
       PyDict(<<Item(K_a_in, PyList(<<S_x, S_y>>))>>),
       PyDict(<<Item(K_a_in, PyList(<<S_x>>))>>),
       PyDict(<<Item(K_a_any, PyList(<<S_y, S_z>>))>>),
       PyDict(<<Item(K_a_in, S_x)>>),
       PyDict(<<Item(K_a_isnull, PyBool(FALSE))>>),
       PyDict(<<Item(K_empty, PyInt(1))>>),
       PyDict(<<Item(K_empty, PyInt(1)), Item(K_a, PyInt(1))>>),
       PyDict(<<Item(K_b, PyInt(3)), Item(K_a_gt, PyInt(0))>>),
       PyDict(<<Item(K_index, PyInt(1)), Item(K_a, PyInt(1))>>),
       PyDict(<<Item(K_index, PyInt(MaxLen + 1)), Item(K_a, PyInt(1))>>),
       PyDict(<<Item(K_index, PyInt(2)), Item(K_regex, P_1)>>),
       PyDict(<<Item(K_index, PyInt(MaxLen + 1)), Item(K_regex, P_1)>>),
       PyDict(<<Item(K_index, PyInt(MaxLen + 1)), Item(K_empty, PyInt(1))>>),
       PyDict(<<Item(K_regex, P_1), Item(K_a, PyInt(1))>>) >>

\* the collections of at most MaxLen elements
Collections ==
    UNION {[1..n -> {Elements[e] : e \in 1..Len(Elements)}] : n \in 0..MaxLen}

\* ------------------------------------------------------------------- state
VARIABLES
    pc,         \* "idle", "classify", "index", "regex", "fields", "done", "raised"
    lst,        \* the caller's collection
    query,      \* element_or_query
    matches,    \* the working set
    stageIn,    \* the working set the last executed stage started from
    err,        \* the exception the call raised, "none" otherwise
    depth       \* deepest _match_path frame entered during the call

vars == <<pc, lst, query, matches, stageIn, err, depth>>

Init ==
    /\ pc = "idle"
    /\ lst = <<>>
    /\ query = None
    /\ matches = <<>>
    /\ stageIn = <<>>
    /\ err = "none"
    /\ depth = 0

\* search(lst, element_or_query) is entered: matches = deepcopy(lst)
Call ==
    /\ pc = "idle"
    /\ \E l \in Collections, qi \in 1..Len(Queries) :
          /\ lst' = l
          /\ query' = Queries[qi]
          /\ matches' = Deepcopy(l)
          /\ stageIn' = Deepcopy(l)
    /\ pc' = "classify"
    /\ UNCHANGED <<err, depth>>

\* a query that is not a dict is matched by equality and returned
Classify ==
    /\ pc = "classify"
    /\ IF query.tag # "dict"
       THEN /\ matches' = ExactMatch(matches, query)
            /\ pc' = "done"
       ELSE /\ matches' = matches
            /\ pc' = "index"
    /\ stageIn' = matches
    /\ UNCHANGED <<lst, query, err, depth>>

IndexStep ==
    /\ pc = "index"
    /\ matches' = IndexStage(matches, query)
    /\ stageIn' = matches
    /\ pc' = "regex"
    /\ UNCHANGED <<lst, query, err, depth>>

RegexStep ==
    /\ pc = "regex"
    /\ matches' = RegexStage(matches, query)
    /\ stageIn' = matches
    /\ pc' = "fields"
    /\ UNCHANGED <<lst, query, err, depth>>

\* the field stage; an exception of _match_path leaves search
FieldsStep ==
    /\ pc = "fields"
    /\ LET r == FieldsStage(matches, query) IN
          /\ err' = r.err
          /\ depth' = r.depth
          /\ IF r.err = "none"
             THEN matches' = r.out /\ pc' = "done"
             ELSE matches' = matches /\ pc' = "raised"
    /\ stageIn' = matches
    /\ UNCHANGED <<lst, query>>

\* return matches, or the exception reaches the caller
Return ==
    /\ pc \in {"done", "raised"}
    /\ pc' = "idle"
    /\ lst' = <<>>
    /\ query' = None
    /\ matches' = <<>>
    /\ stageIn' = <<>>
    /\ err' = "none"
    /\ depth' = 0

Next == Call \/ Classify \/ IndexStep \/ RegexStep \/ FieldsStep \/ Return

Spec == Init /\ [][Next]_vars

TypeOK ==
    /\ pc \in {"idle", "classify", "index", "regex", "fields", "done", "raised"}
    /\ err \in {"none", "TypeError", "RecursionError"}
    /\ depth \in 0..RecursionLimit
    /\ Len(lst) <= MaxLen

\* ============================================================== properties
IsDictQuery == query.tag = "dict"
HasIndex == IsDictQuery /\ DictHas(query, K_index)
HasRegex == IsDictQuery /\ DictHas(query, K_regex)
Returned == pc = "done"

\* a is a subsequence of b: the items of a are items of b at strictly
\* increasing positions
RECURSIVE IsSubseqFrom(_, _, _, _)
IsSubseqFrom(a, b, i, j) ==
    IF i > Len(a) THEN TRUE
    ELSE IF j > Len(b) THEN FALSE
    ELSE IF a[i] = b[j] THEN IsSubseqFrom(a, b, i + 1, j + 1)
    ELSE IsSubseqFrom(a, b, i, j + 1)
IsSubseq(a, b) == IsSubseqFrom(a, b, 1, 1)

\* the position (1-based) an integer or "first"/"last" index value names
\* in a collection of n elements, by the documented rule
NamedPosition(v, n) ==
    IF v.tag = "int" THEN (IF v.val >= 1 THEN v.val ELSE 1)
    ELSE IF v = PyStr(<<"f", "i", "r", "s", "t">>) THEN 1
    ELSE n

\* ---------------------------------------------------------------------- C1
\* C1 (as claimed): the result never has more elements than the collection,
\* and the working set a stage leaves is a subsequence of the one it started
\* from.
C1_MonotonicNarrowing ==
    /\ Len(matches) <= Len(lst)
    /\ IsSubseq(matches, stageIn)

\* C1 (amended): the result has at most max(len(L), 1) elements, and at most
\* len(L) unless the query has __index__ and L is empty; the exact-match,
\* regex and field stages leave a subsequence of their input; the index
\* stage leaves exactly one entry, an element of its input or None when the
\* position does not exist.
C1_NarrowingExceptIndex ==
    /\ Len(matches) <= Max(Len(lst), 1)
    /\ (Len(lst) > 0 \/ ~HasIndex) => Len(matches) <= Len(lst)
    /\ IF pc = "regex" /\ HasIndex
       THEN /\ Len(matches) = 1
            /\ \/ \E i \in 1..Len(stageIn) : matches[1] = stageIn[i]
               \/ /\ matches[1] = [ref |-> 0, val |-> None]
                  /\ NamedPosition(DictGet(query, K_index), Len(stageIn))
                        \notin 1..Len(stageIn)
       ELSE IsSubseq(matches, stageIn)

\* a regex query has dropped part of a collection and kept the rest
C1_Witness ==
    /\ Returned
    /\ HasRegex
    /\ 0 < Len(matches)
    /\ Len(matches) < Len(lst)

\* ---------------------------------------------------------------------- C2
IndexOnly == IsDictQuery /\ DictKeys(query) = <<K_index>>

\* the item the claim names for index value v over collection l
C2_Expected(v, l) ==
    LET p == NamedPosition(v, Len(l)) IN
    IF p \in 1..Len(l) THEN l[p] ELSE None

\* C2: a query whose only key is __index__ never raises and returns exactly
\* one item: L[k-1] for 1 <= k <= len(L), L[0] for k <= 0 and "first", the
\* final element for "last", and None when that position does not exist.
C2_IndexSemantics ==
    IndexOnly =>
        /\ pc # "raised"
        /\ Returned => Values(matches) = <<C2_Expected(DictGet(query, K_index), lst)>>

\* __index__ 2 selected the second of several different elements
C2_Witness ==
    /\ Returned
    /\ IndexOnly
    /\ DictGet(query, K_index) = PyInt(2)
    /\ Len(lst) >= 2
    /\ lst[1] # lst[2]
    /\ Values(matches) = <<lst[2]>>

\* ---------------------------------------------------------------------- C3
RECURSIVE NestingDepth(_)
RECURSIVE MaxNesting(_, _)
MaxNesting(s, i) ==
    IF i > Len(s) THEN 0
    ELSE Max(NestingDepth(s[i]), MaxNesting(s, i + 1))
NestingDepth(x) ==
    CASE x.tag = "list" -> 1 + MaxNesting(x.val, 1)
      [] x.tag = "dict" -> 1 + MaxNesting([i \in 1..Len(x.val) |-> x.val[i].v], 1)
      [] OTHER -> 0

RECURSIVE MaxSegments(_, _)
MaxSegments(items, i) ==
    IF i > Len(items) THEN 0
    ELSE Max(Len(Split(items[i].k, Dot)), MaxSegments(items, i + 1))

\* C3: a call ends without exhausting the stack, and _match_path never goes
\* deeper than the nesting depth of the data plus the number of path
\* segments.
C3_BoundedDescent ==
    pc \in {"done", "raised"} /\ IsDictQuery =>
        /\ err # "RecursionError"
        /\ depth <= MaxNesting(lst, 1) + MaxSegments(query.val, 1)

\* ---------------------------------------------------------------------- C4
OrderedLookups ==
    {SUPPORTED_FILTERING_LOOKUPS[3], SUPPORTED_FILTERING_LOOKUPS[4],
     SUPPORTED_FILTERING_LOOKUPS[5], SUPPORTED_FILTERING_LOOKUPS[6]}
HasOrderedLookup ==
    /\ IsDictQuery
    /\ \E i \in 1..Len(query.val) : \E l \in OrderedLookups : EndsWith(query.val[i].k, l)

\* C4: a query with an ordered lookup never makes search raise TypeError;
\* an element whose field is not order-comparable is just left out.
C4_OrderedLookupNeverRaises ==
    HasOrderedLookup => ~(pc = "raised" /\ err = "TypeError")

\* ---------------------------------------------------------------------- C5
OnlyFieldKeys ==
    /\ IsDictQuery
    /\ \A i \in 1..Len(query.val) : ~StartsWith(query.val[i].k, Dunder)
SingleKey(i) == PyDict(<<query.val[i]>>)
SinglesReturn == \A i \in 1..Len(query.val) : Search(lst, SingleKey(i)).err = "none"
Positions(n) == [i \in 1..n |-> i]

\* C5: when the query has only field-path keys and every single-key search
\* returns, the result is made of the positions that are in the result of
\* every single-key search, in order.
C5_Conjunction ==
    Returned /\ OnlyFieldKeys /\ SinglesReturn =>
        Refs(matches) =
            SelectSeq(Positions(Len(lst)), LAMBDA p :
                \A i \in 1..Len(query.val) :
                    \E j \in 1..Len(Search(lst, SingleKey(i)).out) :
                        Search(lst, SingleKey(i)).out[j].ref = p)

\* ---------------------------------------------------------------------- C6
\* C6: without __index__, what search returns is a subsequence of the
\* collection: its elements are elements of L at increasing positions.
C6_OrderPreserved ==
    Returned /\ ~HasIndex => IsSubseq(Values(matches), lst)

\* a non-index mapping query kept two different elements and dropped one
C6_Witness ==
    /\ Returned
    /\ IsDictQuery
    /\ ~HasIndex
    /\ Len(matches) = 2
    /\ Len(lst) = 3
    /\ matches[1].val # matches[2].val

\* ---------------------------------------------------------------------- C7
\* C7: the regex stage leaves exactly the str and (non-boolean) number
\* elements whose own string form the pattern matches at position 0.
C7_RegexStageExact ==
    pc = "fields" /\ HasRegex =>
        Values(matches) =
            SelectSeq(Values(stageIn), LAMBDA v :
                /\ v.tag \in {"str", "int"}
                /\ ReMatch(DictGet(query, K_regex).val, ToStr(v)))

\* ---------------------------------------------------------------------- C8
InListQuery ==
    /\ IsDictQuery
    /\ Len(query.val) = 1
    /\ EndsWith(query.val[1].k, SUPPORTED_FILTERING_LOOKUPS[1])
    /\ Len(Split(query.val[1].k, Dot)) = 1
    /\ query.val[1].v.tag = "list"
InField == SubSeq(query.val[1].k, 1, Len(query.val[1].k) - 4)
HasListField(e) == e.tag = "dict" /\ DictHas(e, InField) /\ DictGet(e, InField).tag = "list"
InResult(p) == \E j \in 1..Len(matches) : matches[j].ref = p
EveryItemOf(a, b) ==
    \A i \in 1..Len(a.val) : \E j \in 1..Len(b.val) : PyEq(a.val[i], b.val[j])

\* C8 (as claimed): with field__in and a sequence condition, an element
\* whose field is a sequence is returned iff every item of the condition
\* value is found in the field value.
C8_ConditionInField ==
    Returned /\ InListQuery =>
        \A p \in 1..Len(lst) :
            HasListField(lst[p]) =>
                (InResult(p) <=> EveryItemOf(query.val[1].v, DictGet(lst[p], InField)))

\* C8 (amended): with field__in and a sequence condition, an element whose
\* field is a sequence is returned iff every item of the field value is
\* found in the condition value.
C8_FieldInCondition ==
    Returned /\ InListQuery =>
        \A p \in 1..Len(lst) :
            HasListField(lst[p]) =>
                (InResult(p) <=> EveryItemOf(DictGet(lst[p], InField), query.val[1].v))

\* an element was returned whose sequence field lacks an item of the
\* condition value
C8_Witness ==
    /\ Returned
    /\ InListQuery
    /\ \E p \in 1..Len(lst) :
          /\ HasListField(lst[p])
          /\ InResult(p)
          /\ ~EveryItemOf(query.val[1].v, DictGet(lst[p], InField))

\* ---------------------------------------------------------------------- C9
\* the first segment of a single-key query is not the last one and ends
\* with a lookup suffix
LookupOnInnerSegment ==
    /\ IsDictQuery
    /\ Len(query.val) = 1
    /\ Len(Split(query.val[1].k, Dot)) > 1
    /\ StripLookup(Split(query.val[1].k, Dot)[1]) # Split(query.val[1].k, Dot)[1]

\* C9: a lookup suffix on a non-final segment is not stripped: only
\* elements that have the segment's full name as a key can be returned.
C9_SuffixOnlyOnFinalSegment ==
    Returned /\ LookupOnInnerSegment =>
        \A j \in 1..Len(matches) :
            /\ matches[j].val.tag = "dict"
            /\ DictHas(matches[j].val, Split(query.val[1].k, Dot)[1])

\* --------------------------------------------------------------------- C10
IndexWithOthers == HasIndex /\ Len(query.val) > 1
ScalarsAndMappings == \A i \in 1..Len(lst) : lst[i].tag # "list"
\* e passes the regex condition and every other key of the query
SatisfiesOthers(e) ==
    /\ HasRegex => IsStrOrInt(e) /\ ReMatch(DictGet(query, K_regex).val, ToStr(e))
    /\ \A i \in 1..Len(query.val) :
          StartsWith(query.val[i].k, Dunder) \/
          MatchPath(e, Split(query.val[i].k, Dot), query.val[i].v, NoOperator, 1).res = "T"

\* C10: __index__ with other conditions returns [L[pos]] when the position
\* exists and that element satisfies every other condition, and the empty
\* list otherwise.
C10_IndexThenFilter ==
    Returned /\ IndexWithOthers /\ ScalarsAndMappings =>
        LET p == NamedPosition(DictGet(query, K_index), Len(lst)) IN
        Values(matches) =
            IF p \in 1..Len(lst) /\ SatisfiesOthers(lst[p]) THEN <<lst[p]>> ELSE <<>>

====
